---- MODULE Spec2Model ----
(***************************************************************************)
(* Model of src/main.py: the mix-and-master worker.  lambda_handler is a   *)
(* sequential process; wait_for_file is the polling loop it calls three    *)
(* times per Job.  Everything outside the process (object store, webhook,  *)
(* audio libraries, os.remove) answers nondeterministically.               *)
(***************************************************************************)
EXTENDS Integers, Sequences, FiniteSets, TLC

(***************************************************************************)
(* Bounds of the model.                                                    *)
(***************************************************************************)
MaxRecords == 2
MaxSongID == 2
MaxTrackID == 4
MaxTimeout == 6
MaxInterval == 3
MaxDuration == 6

(***************************************************************************)
(* Python values.  None is the empty tuple, any other value v is <<v>>.    *)
(***************************************************************************)
None == <<>>
Some(v) == <<v>>

\* str() of an optional text, as an f-string renders it ("None" for None).
FmtText(o) == IF o = None THEN "None" ELSE o[1]

\* str() of an optional integer, as an f-string renders it.
FmtInt(o) == IF o = None THEN "None" ELSE ToString(o[1])

\* "not track_id": None and 0 are falsy.
Falsy(o) == o = None \/ o = Some(0)

(***************************************************************************)
(* Module-level constants, lines 29-33.                                    *)
(***************************************************************************)
LAMBDA_STATIC_REFERENCE_WAV_PATH == "static/audio/reference.wav"
LOCAL_REFERENCE_PATH == Some("/tmp/reference.wav")
LOCAL_INSTRUMENTAL_PATH == Some("/tmp/instrumental.wav")
LOCAL_FINAL_FILE == None
LOCAL_VOCALS_PATH == None

\* Defaults of wait_for_file's parameters, line 62.
WAIT_TIMEOUT == 10
WAIT_INTERVAL == 5

\* TRACK_FILENAMES.get(track_id, None), lines 37-42.
TRACK_FILENAMES(t) ==
  CASE t = Some(1) -> Some("pop_track1.wav")
    [] t = Some(2) -> Some("norteno_track2.wav")
    [] t = Some(3) -> Some("urbano_track3.wav")
    [] OTHER -> None

\* An exception value: its class and str(e).
Exc(type, msg) == [type |-> type, msg |-> msg]

\* get_dynamic_s3_paths: [ok, value] on return, [~ok, exc] on raise.
get_dynamic_s3_paths(t) ==
  IF TRACK_FILENAMES(t) = None
  THEN [ok |-> FALSE, path |-> "",
        exc |-> Exc("ValueError", "Invalid trackID: " \o FmtInt(t))]
  ELSE [ok |-> TRUE, path |-> "static/audio/" \o TRACK_FILENAMES(t)[1],
        exc |-> Exc("", "")]

\* The f-strings of lines 178-180, 202 and 204.
LocalFinalFile(songID) == "/tmp/final_song_" \o ToString(songID) \o ".wav"
LocalVocalsPath(songID) == "/tmp/vocals_" \o ToString(songID) \o ".wav"
LambdaVocalsPath(fileName) == "utau_inference/" \o FmtText(fileName)
FinalName(songID, t) ==
  "final_song_" \o ToString(songID) \o "_" \o FmtInt(t) \o ".wav"
FinalKey(songID, t) == "matchering/" \o FinalName(songID, t)

(***************************************************************************)
(* Inputs.                                                                 *)
(***************************************************************************)
Handlers == {1, 2}
SongIDs == 1..MaxSongID
FileNames == {None, Some("v.wav")}
TrackIDs == {None} \cup {Some(t) : t \in 0..MaxTrackID}

\* A record body: text that json.loads rejects, or a JSON object.  The code
\* only formats songIDs and passes them on, so they are numbered by first
\* appearance: the k-th record of the envelope of invocation h carries a
\* songID of 1..k+h-1.
BadBody == [ok |-> FALSE, songID |-> 0, fileName |-> None, trackID |-> None]
Bodies ==
  {BadBody} \cup
  [ok : {TRUE}, songID : SongIDs, fileName : FileNames, trackID : TrackIDs]

\* Answers of the world outside the process.
ProbeResults == {"found", "404", "403"}
CallResults == {"ok", "fail"}

(***************************************************************************)
(* State.                                                                  *)
(*   faults     whether, in this run, outside calls may fail and queue     *)
(*              messages may be defective                                  *)
(*   event[h]   the envelope handed to invocation h: whether it has a      *)
(*              'Records' key and how many records it holds                *)
(*   pc[h]      where invocation h stands in lambda_handler                *)
(*   idx[h]     how many records the for loop has taken so far             *)
(*   job[h]     the body of the record being handled                      *)
(*   loc[h]     lambda_handler's local variables                           *)
(*   asset[h]   which of the three staging blocks (185-198) is running     *)
(*   wait[h]    the frame of the running wait_for_file call                *)
(*   mix[h]     the frame of a mix_tracks call that is run on its own      *)
(*   exc[h]     the exception in flight, if any                            *)
(*   instrPath  the global LAMBDA_STATIC_INSTRUMENTAL_WAV_PATH             *)
(*   fs         the files that exist under /tmp                            *)
(*   net[h]     history: the outside calls made for the record in hand,    *)
(*              and the os.remove calls of the finally block               *)
(*   hist[h]    history: one summary per record already completed          *)
(***************************************************************************)
VARIABLES faults, event, pc, idx, job, loc, asset, wait, mix, exc, instrPath,
          fs, net, hist

vars ==
  <<faults, event, pc, idx, job, loc, asset, wait, mix, exc, instrPath, fs,
    net, hist>>

\* The answers of the outside world in this run: of a head_object call, of
\* any other outside call, and of the os.remove calls of the finally block.
\* Without faults the store still answers 404 for an object that is not
\* there yet.
ProbeAnswers == IF faults THEN ProbeResults ELSE {"found", "404"}

CallAnswers == IF faults THEN CallResults ELSE {"ok"}

\* The bodies the queue may deliver: without faults, the ones that parse and
\* carry a file name and a trackID of the catalog.
Deliveries ==
  IF faults
  THEN Bodies
  ELSE {b \in Bodies :
          b.ok /\ b.fileName # None /\ TRACK_FILENAMES(b.trackID) # None}

\* One entry of the history of outside calls.
Call(op) ==
  [op |-> op, asset |-> "", key |-> "", local |-> "", res |-> "",
   elapsed |-> 0, songID |-> 0, action |-> "", fileName |-> None,
   errMsg |-> None]

\* What is kept of a completed record: its songID and trackID, its events
\* and its uploads.
Essential(calls) ==
  LET kept == SelectSeq(calls, LAMBDA c : c.op \in {"notify", "upload"})
  IN  [i \in 1..Len(kept) |->
         IF kept[i].op = "notify" THEN [kept[i] EXCEPT !.res = ""] ELSE kept[i]]

Summary(h) ==
  [songID |-> job[h].songID, trackID |-> job[h].trackID,
   calls |-> Essential(net[h])]

NoLocals ==
  [song_id |-> 0, file_name |-> None, track_id |-> None,
   local_final_file |-> "", local_vocals_path |-> "",
   lambda_vocals_path |-> ""]

NoWait ==
  [caller |-> "", key |-> "", timeout |-> 0, interval |-> 0,
   elapsed_time |-> 0, ret |-> "none"]

\* An audio buffer is the sequence of its samples, one per time unit; len()
\* of a buffer is its duration.
NoMix == [vocals |-> <<>>, instrumental |-> <<>>, out |-> None]

\* The state shared by every initial condition: nothing has run yet.
Fresh ==
  /\ idx = [h \in Handlers |-> 0]
  /\ job = [h \in Handlers |-> BadBody]
  /\ loc = [h \in Handlers |-> NoLocals]
  /\ asset = [h \in Handlers |-> 1]
  /\ exc = [h \in Handlers |-> None]
  /\ instrPath = None
  /\ fs = {}
  /\ net = [h \in Handlers |-> <<>>]
  /\ hist = [h \in Handlers |-> <<>>]

Envelopes ==
  {[hasRecords |-> FALSE, n |-> 0]} \cup
  {[hasRecords |-> TRUE, n |-> n] : n \in 0..MaxRecords}

\* One invocation of lambda_handler (line 154), song_id = 0 (line 159).
Init ==
  /\ Fresh
  /\ faults = TRUE
  /\ \E e \in Envelopes :
       event = [h \in Handlers |->
                  IF h = 1 THEN e ELSE [hasRecords |-> TRUE, n |-> 0]]
  /\ pc = [h \in Handlers |-> IF h = 1 THEN "loop" ELSE "idle"]
  /\ wait = [h \in Handlers |-> NoWait]
  /\ mix = [h \in Handlers |-> NoMix]

(***************************************************************************)
(* Exceptions.  The try statement of lambda_handler spans the whole for    *)
(* loop (163-208); "except Exception" takes every exception class below.   *)
(***************************************************************************)
ExceptionClasses ==
  {"KeyError", "JSONDecodeError", "ValueError", "Exception", "ClientError",
   "S3UploadFailedError", "ModuleError", "RequestException"}

ExceptionCaughtOnlyValueError(type) == type = "ValueError"

\* Line 206: does the except clause take an exception of this class?
ExceptionCaught(type) == type \in ExceptionClasses

\* An exception raised inside the try body: to the except clause when it
\* takes it, else through the finally block and out of the handler.
RaiseInTry(h, e) ==
  /\ exc' = [exc EXCEPT ![h] = Some(e)]
  /\ pc' = [pc EXCEPT ![h] = IF ExceptionCaught(e.type) THEN "except"
                                                        ELSE "finally"]

Goto(h, label) == pc' = [pc EXCEPT ![h] = label]

Log(h, c) == net' = [net EXCEPT ![h] = Append(@, c)]

NotifyOutcomeUncaught(res) == IF res = "ok" THEN "returned" ELSE "raised"

\* notify_system_api, lines 137-152: a RequestException of the POST (transport
\* error, or raise_for_status on a non-2xx answer) is logged and swallowed.
NotifyOutcome(res) == "returned"

\* The payload of lines 138-144 together with the answer of the POST.
NotifyCall(songID, action, fileName, errMsg, res) ==
  [Call("notify") EXCEPT !.songID = songID, !.action = action,
                         !.fileName = fileName, !.errMsg = errMsg,
                         !.res = res]

UploadOutcomeSwallowed(res) == "returned"

\* upload_file_to_s3, lines 54-60: a failure is logged and raised again.
UploadOutcome(res) == IF res = "ok" THEN "returned" ELSE "raised"

\* download_file_from_s3, lines 82-88: a failure is logged and raised again.
DownloadOutcome(res) == IF res = "ok" THEN "returned" ELSE "raised"

(***************************************************************************)
(* lambda_handler, lines 164-171: the for loop takes the next record,      *)
(* parses its body and reads the three fields.                             *)
(***************************************************************************)
NoRecordsKey(h) ==
  /\ pc[h] = "loop"
  /\ ~event[h].hasRecords
  /\ RaiseInTry(h, Exc("KeyError", "'Records'"))
  /\ UNCHANGED <<faults, mix, event, idx, job, loc, asset, wait, instrPath, fs,
                 net, hist>>

LoopExhausted(h) ==
  /\ pc[h] = "loop"
  /\ event[h].hasRecords
  /\ idx[h] = event[h].n
  /\ Goto(h, "finally")
  /\ UNCHANGED <<faults, mix, event, idx, job, loc, asset, wait, exc,
                 instrPath, fs, net, hist>>

NextRecord(h) ==
  /\ pc[h] = "loop"
  /\ event[h].hasRecords
  /\ idx[h] < event[h].n
  /\ \E b \in Deliveries :
       /\ b.songID <= idx[h] + h
       /\ idx' = [idx EXCEPT ![h] = @ + 1]
       /\ job' = [job EXCEPT ![h] = b]
       /\ hist' = [hist EXCEPT ![h] = IF idx[h] >= 1
                                      THEN Append(@, Summary(h)) ELSE @]
       /\ net' = [net EXCEPT ![h] = <<>>]
       /\ IF ~b.ok
          THEN /\ RaiseInTry(h, Exc("JSONDecodeError", "Expecting value"))
               /\ loc' = loc
          ELSE /\ loc' = [loc EXCEPT ![h].song_id = b.songID,
                                     ![h].file_name = b.fileName,
                                     ![h].track_id = b.trackID]
               /\ IF Falsy(b.trackID)
                  THEN RaiseInTry(h, Exc("ValueError",
                                         "Region or track ID is missing."))
                  ELSE Goto(h, "init_paths") /\ exc' = exc
  /\ UNCHANGED <<faults, mix, event, asset, wait, instrPath, fs>>

(***************************************************************************)
(* initialize_s3_paths, lines 47-50 (called on line 173): the global is    *)
(* written, or get_dynamic_s3_paths raises.                                *)
(***************************************************************************)
initialize_s3_paths(h) ==
  /\ pc[h] = "init_paths"
  /\ LET r == get_dynamic_s3_paths(loc[h].track_id)
     IN  IF r.ok
         THEN /\ instrPath' = Some(r.path)
              /\ Goto(h, "check_paths")
              /\ exc' = exc
         ELSE /\ instrPath' = instrPath
              /\ RaiseInTry(h, r.exc)
  /\ UNCHANGED <<faults, mix, event, idx, job, loc, asset, wait, fs, net,
                 hist>>

(***************************************************************************)
(* Lines 175-180: the global is read back and the per-Job paths are built. *)
(***************************************************************************)
BuildPaths(h) ==
  /\ pc[h] = "check_paths"
  /\ IF instrPath = None \/ instrPath = Some("")
     THEN /\ RaiseInTry(h, Exc("ValueError",
                   "LAMBDA_STATIC_INSTRUMENTAL_WAV_PATH is not set."))
          /\ loc' = loc
     ELSE /\ loc' = [loc EXCEPT
                 ![h].local_final_file = LocalFinalFile(loc[h].song_id),
                 ![h].local_vocals_path = LocalVocalsPath(loc[h].song_id),
                 ![h].lambda_vocals_path = LambdaVocalsPath(loc[h].file_name)]
          /\ Goto(h, "notify_start")
          /\ exc' = exc
  /\ UNCHANGED <<faults, mix, event, idx, job, asset, wait, instrPath, fs, net,
                 hist>>

(***************************************************************************)
(* Line 182: the 'start' event.                                            *)
(***************************************************************************)
NotifyStart(h) ==
  /\ pc[h] = "notify_start"
  /\ \E res \in CallAnswers :
       /\ Log(h, NotifyCall(loc[h].song_id, "start", None, None, res))
       /\ IF NotifyOutcome(res) = "returned"
          THEN Goto(h, "wait_call") /\ exc' = exc
          ELSE RaiseInTry(h, Exc("RequestException", "webhook"))
  /\ asset' = [asset EXCEPT ![h] = 1]
  /\ UNCHANGED <<faults, mix, event, idx, job, loc, wait, instrPath, fs, hist>>

(***************************************************************************)
(* Lines 185-198: three staging blocks, each a wait_for_file call followed *)
(* by a download or by a raise.                                            *)
(***************************************************************************)
AssetOrderInstrumentalFirst == <<"instrumental", "reference", "vocals">>

\* The order in which the blocks of lines 185, 190 and 195 stand.
AssetOrder == <<"reference", "instrumental", "vocals">>

CurrentAsset(h) == AssetOrder[asset[h]]

\* The key each block passes (lines 185-186, 190-191, 195-196); the
\* instrumental key is the global as it reads at the time of the call.
RemoteKey(h, name) ==
  CASE name = "reference" -> LAMBDA_STATIC_REFERENCE_WAV_PATH
    [] name = "instrumental" -> FmtText(instrPath)
    [] OTHER -> loc[h].lambda_vocals_path

\* The local file each block downloads to (lines 186, 191, 196).
LocalPath(h, name) ==
  CASE name = "reference" -> LOCAL_REFERENCE_PATH[1]
    [] name = "instrumental" -> LOCAL_INSTRUMENTAL_PATH[1]
    [] OTHER -> loc[h].local_vocals_path

\* The exception of each else branch (lines 188, 193, 198).
Unavailable(h, name) ==
  CASE name = "reference" ->
         Exc("Exception", "Reference file not available within timeout")
    [] name = "instrumental" ->
         Exc("Exception", "Instrumental file not available within timeout")
    [] OTHER ->
         Exc("Exception",
             "Vocals file not available: " \o loc[h].lambda_vocals_path)

\* The call of wait_for_file: its frame, elapsed_time = 0 (line 64).
WaitCall(h) ==
  /\ pc[h] = "wait_call"
  /\ wait' = [wait EXCEPT ![h] =
                [caller |-> "lambda_handler",
                 key |-> RemoteKey(h, CurrentAsset(h)),
                 timeout |-> WAIT_TIMEOUT, interval |-> WAIT_INTERVAL,
                 elapsed_time |-> 0, ret |-> "running"]]
  /\ Goto(h, "wait_loop")
  /\ UNCHANGED <<faults, mix, event, idx, job, loc, asset, exc, instrPath, fs,
                 net, hist>>

WaitGuardInclusive(elapsed_time, timeout) == elapsed_time <= timeout

\* Line 65: the loop condition of wait_for_file.
WaitGuard(elapsed_time, timeout) == elapsed_time < timeout

ProbeDispositionRetryAll(res) ==
  IF res = "found" THEN "return_true" ELSE "sleep"

\* Lines 66-76: what wait_for_file does with the answer of head_object.
ProbeDisposition(res) ==
  CASE res = "found" -> "return_true"
    [] res = "404" -> "sleep"
    [] OTHER -> "raise"

\* One iteration of the loop of wait_for_file, lines 65-76.
WaitProbe(h) ==
  /\ pc[h] = "wait_loop"
  /\ WaitGuard(wait[h].elapsed_time, wait[h].timeout)
  /\ \E res \in ProbeAnswers :
       LET d == ProbeDisposition(res)
           after == IF d = "sleep"
                    THEN wait[h].elapsed_time + wait[h].interval
                    ELSE wait[h].elapsed_time
       IN  /\ Log(h, [Call("head") EXCEPT !.asset = CurrentAsset(h),
                                          !.key = wait[h].key,
                                          !.res = res, !.elapsed = after])
           /\ wait' = [wait EXCEPT
                 ![h].elapsed_time = after,
                 ![h].ret = CASE d = "return_true" -> "true"
                              [] d = "sleep" -> "running"
                              [] OTHER -> "raise"]
           /\ exc' = [exc EXCEPT ![h] =
                        IF d = "raise" THEN Some(Exc("ClientError", res))
                                       ELSE @]
           /\ Goto(h, IF d = "sleep" THEN "wait_loop" ELSE "wait_ret")
  /\ UNCHANGED <<faults, mix, event, idx, job, loc, asset, instrPath, fs,
                 hist>>

\* Lines 65, 77-78: the loop condition fails and wait_for_file returns False.
WaitExpire(h) ==
  /\ pc[h] = "wait_loop"
  /\ ~WaitGuard(wait[h].elapsed_time, wait[h].timeout)
  /\ wait' = [wait EXCEPT ![h].ret = "false"]
  /\ Goto(h, "wait_ret")
  /\ UNCHANGED <<faults, mix, event, idx, job, loc, asset, exc, instrPath, fs,
                 net, hist>>

\* Back in lambda_handler: the if of lines 185, 190 and 195.
WaitReturn(h) ==
  /\ pc[h] = "wait_ret"
  /\ wait[h].caller = "lambda_handler"
  /\ CASE wait[h].ret = "true" -> Goto(h, "download") /\ exc' = exc
       [] wait[h].ret = "false" ->
            RaiseInTry(h, Unavailable(h, CurrentAsset(h)))
       [] OTHER -> RaiseInTry(h, exc[h][1])
  /\ UNCHANGED <<faults, mix, event, idx, job, loc, asset, wait, instrPath, fs,
                 net, hist>>

\* download_file_from_s3 as called on lines 186, 191 and 196.
Download(h) ==
  /\ pc[h] = "download"
  /\ \E res \in CallAnswers :
       LET name == CurrentAsset(h)
           local == LocalPath(h, name)
       IN  /\ Log(h, [Call("download") EXCEPT !.asset = name,
                                              !.key = RemoteKey(h, name),
                                              !.local = local, !.res = res])
           /\ IF DownloadOutcome(res) = "returned"
              THEN /\ fs' = fs \cup {local}
                   /\ asset' = [asset EXCEPT ![h] =
                                  IF @ < Len(AssetOrder) THEN @ + 1 ELSE @]
                   /\ Goto(h, IF asset[h] < Len(AssetOrder) THEN "wait_call"
                                                             ELSE "process")
                   /\ exc' = exc
              ELSE /\ fs' = fs
                   /\ asset' = asset
                   /\ RaiseInTry(h, Exc("ClientError", "download failed"))
  /\ UNCHANGED <<faults, mix, event, idx, job, loc, wait, instrPath, hist>>

(***************************************************************************)
(* process_files (90-116) and mix_tracks (118-133), called on line 200.    *)
(***************************************************************************)
\* AudioSegment.from_wav (lines 121-122): the decoded file, one sample per
\* time unit.
Decoded(src, duration) == [t \in 1..duration |-> [src |-> src, t |-> t]]

Durations == 0..MaxDuration

\* AudioSegment.silent(duration=d), line 125.
Silent(d) == [t \in 1..d |-> [src |-> "silence", t |-> 0]]

\* segment[:n], line 128: the first n time units, or all of a shorter one.
SliceTo(segment, n) == SubSeq(segment, 1, IF n < Len(segment) THEN n
                                                            ELSE Len(segment))

AlignVocalsNotCut(vocals, instrumental) ==
  IF Len(vocals) < Len(instrumental)
  THEN vocals \o Silent(Len(instrumental) - Len(vocals))
  ELSE vocals

\* Lines 124-128: the vocals are padded with silence, or cut, to the length
\* of the instrumental.
AlignVocals(vocals, instrumental) ==
  IF Len(vocals) < Len(instrumental)
  THEN vocals \o Silent(Len(instrumental) - Len(vocals))
  ELSE IF Len(vocals) > Len(instrumental)
       THEN SliceTo(vocals, Len(instrumental))
       ELSE vocals

\* base.overlay(over), line 130: the result has the length of the base; the
\* other buffer is laid over it from position 0 and what exceeds the base is
\* dropped.
Overlay(base, over) ==
  [t \in 1..Len(base) |->
     [base |-> base[t],
      over |-> IF t <= Len(over) THEN over[t]
                                 ELSE [src |-> "nothing", t |-> 0]]]

\* mix_tracks: the overlay on success; any exception inside it is logged
\* and None is returned (lines 131-133).
mix_tracks(vocals, instrumental, res) ==
  IF res = "ok"
  THEN Some(Overlay(AlignVocals(vocals, instrumental), instrumental))
  ELSE None

MixRejectedNever(mixed) == FALSE

\* Lines 100-101: process_files raises when mix_tracks returned None.
MixRejected(mixed) == mixed = None

Process(h) ==
  /\ pc[h] = "process"
  /\ \E mixRes \in CallAnswers, masterRes \in CallAnswers,
        v \in Durations, i \in Durations :
       LET mixed == mix_tracks(Decoded("vocals", v),
                               Decoded("instrumental", i), mixRes)
           mixCall == [Call("mix") EXCEPT !.res = mixRes]
           masterCall == [Call("master") EXCEPT
                            !.local = loc[h].local_final_file,
                            !.res = masterRes]
       IN  IF MixRejected(mixed)
           THEN /\ masterRes = "ok"
                /\ Log(h, mixCall)
                /\ fs' = fs
                /\ RaiseInTry(h, Exc("ValueError",
                                     "Failed to mix audio tracks."))
           ELSE /\ net' = [net EXCEPT ![h] = @ \o <<mixCall, masterCall>>]
                /\ IF masterRes = "ok"
                   THEN /\ fs' = fs \cup {loc[h].local_final_file}
                        /\ Goto(h, "upload")
                        /\ exc' = exc
                   ELSE /\ fs' = fs
                        /\ RaiseInTry(h, Exc("ModuleError",
                                             "mastering failed"))
  /\ UNCHANGED <<faults, mix, event, idx, job, loc, asset, wait, instrPath,
                 hist>>

(***************************************************************************)
(* Line 202: the upload of the final file.                                 *)
(***************************************************************************)
Upload(h) ==
  /\ pc[h] = "upload"
  /\ \E res \in CallAnswers :
       /\ Log(h, [Call("upload") EXCEPT
                    !.local = loc[h].local_final_file,
                    !.key = FinalKey(loc[h].song_id, loc[h].track_id),
                    !.res = res])
       /\ IF UploadOutcome(res) = "returned"
          THEN Goto(h, "notify_end") /\ exc' = exc
          ELSE RaiseInTry(h, Exc("S3UploadFailedError", "upload failed"))
  /\ UNCHANGED <<faults, mix, event, idx, job, loc, asset, wait, instrPath, fs,
                 hist>>

(***************************************************************************)
(* Line 204: the 'end' event; the for loop then goes on.                   *)
(***************************************************************************)
NotifyEnd(h) ==
  /\ pc[h] = "notify_end"
  /\ \E res \in CallAnswers :
       /\ Log(h, NotifyCall(loc[h].song_id, "end",
                            Some(FinalName(loc[h].song_id, loc[h].track_id)),
                            None, res))
       /\ IF NotifyOutcome(res) = "returned"
          THEN Goto(h, "loop") /\ exc' = exc
          ELSE RaiseInTry(h, Exc("RequestException", "webhook"))
  /\ UNCHANGED <<faults, mix, event, idx, job, loc, asset, wait, instrPath, fs,
                 hist>>

(***************************************************************************)
(* Lines 206-208: the except clause posts the 'error' event with the       *)
(* current value of song_id and str(e).  An exception raised here leaves   *)
(* the handler after the finally block.                                    *)
(***************************************************************************)
AfterExceptNextRecord == "loop"

\* The try statement (163) encloses the for loop (164), so after the except
\* clause control is past the loop, at the finally block.
AfterExcept == "finally"

Except(h) ==
  /\ pc[h] = "except"
  /\ \E res \in CallAnswers :
       /\ Log(h, NotifyCall(loc[h].song_id, "error", None,
                            Some(exc[h][1].msg), res))
       /\ exc' = [exc EXCEPT ![h] =
                    IF NotifyOutcome(res) = "returned"
                    THEN None ELSE Some(Exc("RequestException", "webhook"))]
  /\ Goto(h, AfterExcept)
  /\ UNCHANGED <<faults, mix, event, idx, job, loc, asset, wait, instrPath, fs,
                 hist>>

(***************************************************************************)
(* Lines 210-220: the finally block walks the module-level list of paths;  *)
(* os.remove may fail on any of them, which is logged as a warning.        *)
(***************************************************************************)
CleanupPathsOutputsOnly == <<LOCAL_VOCALS_PATH, LOCAL_FINAL_FILE>>

CleanupPaths ==
  <<LOCAL_VOCALS_PATH, LOCAL_FINAL_FILE, LOCAL_REFERENCE_PATH,
    LOCAL_INSTRUMENTAL_PATH>>

\* Line 213: the paths of the list that are set and exist, in list order.
Removable ==
  SelectSeq(CleanupPaths, LAMBDA p : p # None /\ p[1] \in fs)

\* The sets of paths whose os.remove may raise.
RemoveFailures ==
  IF faults THEN SUBSET {Removable[i][1] : i \in 1..Len(Removable)} ELSE {{}}

RemovalsUntilFailure(failed) ==
  LET bad == {i \in 1..Len(Removable) : Removable[i][1] \in failed}
  IN  IF bad = {}
      THEN Removable
      ELSE SubSeq(Removable, 1, CHOOSE i \in bad : \A j \in bad : i <= j)

\* Lines 213-218: the try statement is inside the loop body, so every such
\* path gets its os.remove, whichever of them fail.
Removals(failed) == Removable

\* Lines 214-218: one os.remove per such path; a failure is only logged.
Finally(h) ==
  /\ pc[h] = "finally"
  /\ \E failed \in RemoveFailures :
       LET tried == Removals(failed)
       IN  /\ fs' = fs \ ({tried[i][1] : i \in 1..Len(tried)} \ failed)
           /\ net' = [net EXCEPT ![h] = @ \o
                       [i \in 1..Len(tried) |->
                          [Call("remove") EXCEPT
                             !.local = tried[i][1],
                             !.res = IF tried[i][1] \in failed
                                     THEN "fail" ELSE "ok"]]]
  /\ Goto(h, IF exc[h] = None THEN "returned" ELSE "raised")
  /\ UNCHANGED <<faults, mix, event, idx, job, loc, asset, wait, exc,
                 instrPath, hist>>

(***************************************************************************)
(* The handler, one invocation.                                            *)
(***************************************************************************)
Next ==
  \E h \in Handlers :
    \/ NoRecordsKey(h)
    \/ LoopExhausted(h)
    \/ NextRecord(h)
    \/ initialize_s3_paths(h)
    \/ BuildPaths(h)
    \/ NotifyStart(h)
    \/ WaitCall(h)
    \/ WaitProbe(h)
    \/ WaitExpire(h)
    \/ WaitReturn(h)
    \/ Download(h)
    \/ Process(h)
    \/ Upload(h)
    \/ NotifyEnd(h)
    \/ Except(h)
    \/ Finally(h)

Spec == Init /\ [][Next]_vars

(***************************************************************************)
(* wait_for_file on its own: any timeout >= 0 and any interval > 0.        *)
(***************************************************************************)
InitWait ==
  /\ Fresh
  /\ faults = TRUE
  /\ event = [h \in Handlers |-> [hasRecords |-> TRUE, n |-> 0]]
  /\ pc = [h \in Handlers |-> IF h = 1 THEN "wait_loop" ELSE "idle"]
  /\ \E t \in 0..MaxTimeout, i \in 1..MaxInterval :
       wait = [h \in Handlers |->
                 IF h = 1
                 THEN [caller |-> "",
                       key |-> LAMBDA_STATIC_REFERENCE_WAV_PATH,
                       timeout |-> t, interval |-> i, elapsed_time |-> 0,
                       ret |-> "running"]
                 ELSE NoWait]
  /\ mix = [h \in Handlers |-> NoMix]

NextWait == WaitProbe(1) \/ WaitExpire(1)

SpecWait == InitWait /\ [][NextWait]_vars

(***************************************************************************)
(* Termination: one invocation of lambda_handler, or one call of           *)
(* wait_for_file on its own, in which every step that can be taken is      *)
(* eventually taken: every outside call returns.                           *)
(***************************************************************************)
InitTerminates == Init \/ InitWait

SpecTerminates == InitTerminates /\ [][Next]_vars /\ WF_vars(Next)

(***************************************************************************)
(* mix_tracks on its own: any two durations.                               *)
(***************************************************************************)
InitMix ==
  /\ Fresh
  /\ faults = TRUE
  /\ event = [h \in Handlers |-> [hasRecords |-> TRUE, n |-> 0]]
  /\ pc = [h \in Handlers |-> IF h = 1 THEN "mix_call" ELSE "idle"]
  /\ wait = [h \in Handlers |-> NoWait]
  /\ \E v \in Durations, i \in Durations :
       mix = [h \in Handlers |->
                IF h = 1
                THEN [vocals |-> Decoded("vocals", v),
                      instrumental |-> Decoded("instrumental", i),
                      out |-> None]
                ELSE NoMix]

\* Lines 118-133 as one step: the buffer, or None when anything raised.
MixCall(h) ==
  /\ pc[h] = "mix_call"
  /\ \E res \in CallAnswers :
       /\ mix' = [mix EXCEPT ![h].out =
                    mix_tracks(mix[h].vocals, mix[h].instrumental, res)]
       /\ Log(h, [Call("mix") EXCEPT !.res = res])
  /\ Goto(h, "mix_ret")
  /\ UNCHANGED <<faults, event, idx, job, loc, asset, wait, exc, instrPath, fs,
                 hist>>

NextMix == MixCall(1)

SpecMix == InitMix /\ [][NextMix]_vars

(***************************************************************************)
(* Two invocations of lambda_handler in one process, their steps           *)
(* interleaved: both share the module globals and the files under /tmp.    *)
(***************************************************************************)
ConcurrentEnvelopes ==
  {[hasRecords |-> FALSE, n |-> 0], [hasRecords |-> TRUE, n |-> 1]}

InitConcurrent ==
  /\ Fresh
  /\ faults = FALSE
  /\ event \in [Handlers -> ConcurrentEnvelopes]
  /\ pc = [h \in Handlers |-> "loop"]
  /\ wait = [h \in Handlers |-> NoWait]
  /\ mix = [h \in Handlers |-> NoMix]

SpecConcurrent == InitConcurrent /\ [][Next]_vars

(***************************************************************************)
(* Vocabulary of the properties.                                           *)
(***************************************************************************)
Finished(h) == pc[h] \in {"returned", "raised"}

\* The calls made while record k of invocation h was in hand.
CallsOf(h, k) ==
  CASE k < idx[h] -> hist[h][k].calls
    [] k = idx[h] -> net[h]
    [] OTHER -> <<>>

EventsIn(calls, actions) ==
  SelectSeq(calls, LAMBDA c : c.op = "notify" /\ c.action \in actions)

StorageOps == {"head", "download", "upload"}

\* The records of the catalog, as the property states them.
CatalogIDs == {Some(1), Some(2), Some(3)}

\* A record that parses and names a catalogued track.
PassesValidation(b) == b.ok /\ b.trackID \in CatalogIDs

(***************************************************************************)
(* C1 as stated: when the handler has finished, every record of the        *)
(* envelope has exactly one 'start' event and exactly one terminal event   *)
(* ('end' or 'error'), also a record that fails validation and a record    *)
(* that is not the first.                                                  *)
(***************************************************************************)
C1_ExactlyOneStartAndTerminalPerRecord ==
  \A h \in Handlers :
    Finished(h) =>
      \A k \in 1..event[h].n :
        /\ Len(EventsIn(CallsOf(h, k), {"start"})) = 1
        /\ Len(EventsIn(CallsOf(h, k), {"end", "error"})) = 1

(***************************************************************************)
(* C1 amended: a record never has more than one 'start' nor more than one  *)
(* terminal event; when the handler has finished, every record it took has *)
(* exactly one terminal event, and has its 'start' exactly when it passed  *)
(* parsing and track resolution; only the last record taken can have       *)
(* failed, and the records after it have no event at all.                  *)
(***************************************************************************)
C1_StartAndTerminalPerHandledRecord ==
  \A h \in Handlers :
    \A k \in 1..event[h].n :
      LET starts == Len(EventsIn(CallsOf(h, k), {"start"}))
          ends == Len(EventsIn(CallsOf(h, k), {"end"}))
          errors == Len(EventsIn(CallsOf(h, k), {"error"}))
      IN  /\ starts <= 1
          /\ ends + errors <= 1
          /\ ends = 1 => starts = 1
          /\ (starts = 1 /\ k = idx[h]) => PassesValidation(job[h])
          /\ (k < idx[h]) => (starts = 1 /\ ends = 1)
          /\ (k > idx[h]) => (CallsOf(h, k) = <<>>)
          /\ (Finished(h) /\ k = idx[h]) =>
               /\ ends + errors = 1
               /\ (starts = 1) <=> PassesValidation(job[h])
               /\ (idx[h] < event[h].n) => (errors = 1)

\* Two records: the first completed, the second failed validation and has
\* its 'error' without a 'start'.
C1_Witness ==
  \E h \in Handlers :
    /\ pc[h] = "returned"
    /\ idx[h] = 2
    /\ Len(EventsIn(CallsOf(h, 1), {"start"})) = 1
    /\ Len(EventsIn(CallsOf(h, 1), {"end"})) = 1
    /\ ~PassesValidation(job[h])
    /\ Len(EventsIn(CallsOf(h, 2), {"start"})) = 0
    /\ Len(EventsIn(CallsOf(h, 2), {"error"})) = 1

(***************************************************************************)
(* C2 as stated: when the handler has finished (and no os.remove failed),  *)
(* none of the staging files of the Jobs it handled exists any more: the   *)
(* reference file, the instrumental file, /tmp/vocals_{songID}.wav and     *)
(* /tmp/final_song_{songID}.wav.                                           *)
(***************************************************************************)
SongIDsHandled(h) ==
  {hist[h][k].songID : k \in 1..Len(hist[h])} \cup
  (IF idx[h] >= 1 /\ job[h].ok THEN {job[h].songID} ELSE {})

StagingFiles(h) ==
  {"/tmp/reference.wav", "/tmp/instrumental.wav"} \cup
  {"/tmp/vocals_" \o ToString(s) \o ".wav" : s \in SongIDsHandled(h)} \cup
  {"/tmp/final_song_" \o ToString(s) \o ".wav" : s \in SongIDsHandled(h)}

C2_NoResidualStagingFiles ==
  \A h \in Handlers :
    ( /\ Finished(h)
      /\ \A i \in 1..Len(net[h]) :
           net[h][i].op = "remove" => net[h][i].res = "ok" )
    => StagingFiles(h) \cap fs = {}

(***************************************************************************)
(* C3: no failure leaves lambda_handler.  The handler never ends by        *)
(* raising; when it has returned after a failed step (parsing, track       *)
(* resolution, polling, download, mixing, mastering, upload), no exception *)
(* is left in flight and the 'error' event that carries the description of *)
(* that failure was posted right after the failed step, and nothing but    *)
(* the removals of the cleanup follows it.                                 *)
(***************************************************************************)
\* The description str(e) of the failure that call c stands for, if any.
FailureOf(c) ==
  CASE c.op = "head" /\ c.res = "403" -> Some("403")
    [] c.op = "head" /\ c.res = "404" /\ c.elapsed >= 10 ->
         Some(CASE c.asset = "reference" ->
                     "Reference file not available within timeout"
                [] c.asset = "instrumental" ->
                     "Instrumental file not available within timeout"
                [] OTHER -> "Vocals file not available: " \o c.key)
    [] c.op = "download" /\ c.res = "fail" -> Some("download failed")
    [] c.op = "mix" /\ c.res = "fail" -> Some("Failed to mix audio tracks.")
    [] c.op = "master" /\ c.res = "fail" -> Some("mastering failed")
    [] c.op = "upload" /\ c.res = "fail" -> Some("upload failed")
    [] OTHER -> None

\* The description of the failure of parsing or track resolution, if any.
ValidationFailureOf(b) ==
  CASE ~b.ok -> Some("Expecting value")
    [] b.trackID \in {None, Some(0)} -> Some("Region or track ID is missing.")
    [] b.trackID \notin CatalogIDs ->
         Some("Invalid trackID: " \o ToString(b.trackID[1]))
    [] OTHER -> None

IsErrorEvent(c, songID, msg) ==
  /\ c.op = "notify"
  /\ c.action = "error"
  /\ c.songID = songID
  /\ c.errMsg = msg

OnlyRemovalsAfter(calls, i) ==
  \A j \in (i + 1)..Len(calls) : calls[j].op = "remove"

C3_NoFailureEscapes ==
  \A h \in Handlers :
    /\ pc[h] # "raised"
    /\ pc[h] = "returned" =>
         /\ exc[h] = None
         /\ \A i \in 1..Len(net[h]) :
              FailureOf(net[h][i]) # None =>
                /\ i < Len(net[h])
                /\ IsErrorEvent(net[h][i + 1], loc[h].song_id,
                                FailureOf(net[h][i]))
                /\ OnlyRemovalsAfter(net[h], i + 1)
         /\ (idx[h] >= 1 /\ ValidationFailureOf(job[h]) # None) =>
              /\ Len(net[h]) >= 1
              /\ IsErrorEvent(net[h][1], loc[h].song_id,
                              ValidationFailureOf(job[h]))
              /\ OnlyRemovalsAfter(net[h], 1)

\* The upload failed, the 'error' event was posted, the cleanup removed two
\* files and the handler returned.
C3_Witness ==
  \E h \in Handlers :
    /\ pc[h] = "returned"
    /\ \E i \in 1..Len(net[h]) :
         /\ net[h][i].op = "upload"
         /\ net[h][i].res = "fail"
         /\ i + 3 = Len(net[h])
         /\ net[h][i + 1].action = "error"
         /\ net[h][i + 2].op = "remove"
         /\ net[h][i + 3].op = "remove"

(***************************************************************************)
(* C4: a Job that completes (its 'end' event is posted) has exactly one    *)
(* upload, which succeeded, to matchering/final_song_{songID}_{trackID}.wav*)
(* built from its own songID and trackID; its events are 'start' then      *)
(* 'end', the 'end' naming final_song_{songID}_{trackID}.wav and coming    *)
(* right after the upload.  No 'end' event exists without that upload, and *)
(* a Job is never uploaded for twice.                                      *)
(***************************************************************************)
ExpectedName(songID, trackID) ==
  "final_song_" \o ToString(songID) \o "_" \o ToString(trackID[1]) \o ".wav"

CompletedAsSpecified(calls, songID, trackID) ==
  LET ups == SelectSeq(calls, LAMBDA c : c.op = "upload")
      evs == EventsIn(calls, {"start", "end", "error"})
  IN  /\ Len(ups) = 1
      /\ ups[1].res = "ok"
      /\ ups[1].key = "matchering/" \o ExpectedName(songID, trackID)
      /\ Len(evs) = 2
      /\ evs[1].action = "start"
      /\ evs[1].songID = songID
      /\ evs[2].action = "end"
      /\ evs[2].songID = songID
      /\ evs[2].fileName = Some(ExpectedName(songID, trackID))
      /\ evs[2].errMsg = None
      /\ \E i \in 1..Len(calls) - 1 :
           calls[i].op = "upload" /\ calls[i + 1] = evs[2]

C4_OneUploadPerCompletedJob ==
  \A h \in Handlers :
    /\ \A k \in 1..Len(hist[h]) :
         CompletedAsSpecified(hist[h][k].calls, hist[h][k].songID,
                              hist[h][k].trackID)
    /\ EventsIn(net[h], {"end"}) # <<>> =>
         /\ idx[h] >= 1
         /\ job[h].trackID \in CatalogIDs
         /\ CompletedAsSpecified(net[h], job[h].songID, job[h].trackID)
    /\ Len(SelectSeq(net[h], LAMBDA c : c.op = "upload")) <= 1

\* The Job {songID 1, trackID 2} has completed: object
\* matchering/final_song_1_2.wav, events start and end(final_song_1_2.wav).
C4_Witness ==
  \E h \in Handlers :
    /\ pc[h] = "returned"
    /\ job[h].songID = 1
    /\ job[h].trackID = Some(2)
    /\ \E i \in 1..Len(net[h]) - 1 :
         /\ net[h][i].op = "upload"
         /\ net[h][i].key = "matchering/final_song_1_2.wav"
         /\ net[h][i + 1].action = "end"
         /\ net[h][i + 1].fileName = Some("final_song_1_2.wav")

(***************************************************************************)
(* C5 as stated: a Job whose trackID is given but is not 1, 2 or 3 fails   *)
(* with the unknown-track error before any storage call and before the     *)
(* 'start' event; when the handler has finished, the only outside call     *)
(* made for it is one 'error' event that says "Invalid trackID", and the   *)
(* handler returned.                                                       *)
(***************************************************************************)
C5_UnknownTrackFailsAtResolution ==
  \A h \in Handlers :
    ( /\ idx[h] >= 1
      /\ job[h].ok
      /\ job[h].trackID # None
      /\ job[h].trackID \notin CatalogIDs )
    => /\ \A i \in 1..Len(net[h]) :
            /\ net[h][i].op \notin StorageOps
            /\ net[h][i].op = "notify" => net[h][i].action = "error"
       /\ Len(EventsIn(net[h], {"error"})) <= 1
       /\ pc[h] # "raised"
       /\ pc[h] = "returned" =>
            /\ Len(net[h]) >= 1
            /\ IsErrorEvent(net[h][1], job[h].songID,
                            Some("Invalid trackID: "
                                 \o ToString(job[h].trackID[1])))

(***************************************************************************)
(* C6 as stated: a Job without fileName is rejected at the parse step: it  *)
(* gets no 'start' event and causes no storage probe and no download.      *)
(***************************************************************************)
C6_MissingFileNameRejectedAtParse ==
  \A h \in Handlers :
    (idx[h] >= 1 /\ job[h].ok /\ job[h].fileName = None) =>
      \A i \in 1..Len(net[h]) :
        /\ net[h][i].op \notin {"head", "download"}
        /\ net[h][i].op = "notify" => net[h][i].action # "start"

(***************************************************************************)
(* C7: within one Job the assets are staged in the order reference,        *)
(* instrumental, vocals: a probe of a later asset comes only after the     *)
(* download of the asset before it; a download comes right after a probe   *)
(* of the same asset that answered 'found', at most once per asset; after  *)
(* a poll that timed out nothing is probed, downloaded, mixed, mastered or *)
(* uploaded; and mixing starts only when all three are downloaded.         *)
(***************************************************************************)
Rank(name) ==
  CASE name = "reference" -> 1
    [] name = "instrumental" -> 2
    [] name = "vocals" -> 3
    [] OTHER -> 0

IsStaging(c) == c.op \in {"head", "download"}

\* The last probe of a poll that ran into the timeout of lambda_handler's
\* calls (10 seconds).
TimedOut(c) == c.op = "head" /\ c.res = "404" /\ c.elapsed >= 10

DownloadedBefore(calls, i, rank) ==
  \E j \in 1..(i - 1) :
    /\ calls[j].op = "download"
    /\ Rank(calls[j].asset) = rank
    /\ calls[j].res = "ok"

C7_AssetsStagedInOrder ==
  \A h \in Handlers :
    LET calls == net[h]
    IN  \A i \in 1..Len(calls) :
          /\ IsStaging(calls[i]) =>
               /\ Rank(calls[i].asset) \in 1..3
               /\ \A j \in 1..(i - 1) :
                    IsStaging(calls[j]) =>
                      Rank(calls[j].asset) <= Rank(calls[i].asset)
               /\ Rank(calls[i].asset) > 1 =>
                    DownloadedBefore(calls, i, Rank(calls[i].asset) - 1)
          /\ calls[i].op = "download" =>
               /\ i > 1
               /\ calls[i - 1].op = "head"
               /\ calls[i - 1].asset = calls[i].asset
               /\ calls[i - 1].res = "found"
               /\ \A j \in 1..(i - 1) :
                    calls[j].op = "download" =>
                      calls[j].asset # calls[i].asset
          /\ TimedOut(calls[i]) =>
               \A j \in (i + 1)..Len(calls) :
                 calls[j].op \in {"notify", "remove"}
          /\ calls[i].op \in {"mix", "master", "upload"} =>
               \A r \in 1..3 : DownloadedBefore(calls, i, r)

\* Reference and instrumental were downloaded, the vocals poll timed out
\* and the handler has returned.
C7_Witness ==
  \E h \in Handlers :
    /\ pc[h] = "returned"
    /\ \E i \in 1..Len(net[h]) :
         /\ TimedOut(net[h][i])
         /\ net[h][i].asset = "vocals"
         /\ DownloadedBefore(net[h], i, 1)
         /\ DownloadedBefore(net[h], i, 2)

(***************************************************************************)
(* wait_for_file, checked under SpecWait: every timeout of 0..MaxTimeout,  *)
(* every interval of 1..MaxInterval, every sequence of probe answers.      *)
(***************************************************************************)
Probes(h) == SelectSeq(net[h], LAMBDA c : c.op = "head")

OnlyFoundOrNotFound(h) ==
  \A i \in 1..Len(Probes(h)) : Probes(h)[i].res \in {"found", "404"}

WaitReturned(h) == pc[h] = "wait_ret"

\* The result of a call that has returned, in terms of its probes.
ReturnsAsProbed(h) ==
  LET w == wait[h]
      probes == Probes(h)
  IN  /\ w.ret \in {"true", "false"}
      /\ exc[h] = None
      /\ (w.ret = "true") <=>
           (\E i \in 1..Len(probes) : probes[i].res = "found")
      /\ \A i \in 1..Len(probes) : (i - 1) * w.interval < w.timeout
      /\ w.ret = "false" =>
           /\ w.elapsed_time = Len(probes) * w.interval
           /\ w.elapsed_time >= w.timeout

(***************************************************************************)
(* C8 as stated: for every timeout >= 0 and interval > 0, a call whose     *)
(* probes answer 'found' or 'not found' has probed at least once when it   *)
(* returns, returns true exactly when a probe made before the timeout      *)
(* answered 'found', and returns false at the timeout otherwise.           *)
(***************************************************************************)
C8_ProbesAtLeastOnce ==
  \A h \in Handlers :
    (WaitReturned(h) /\ OnlyFoundOrNotFound(h)) =>
      /\ Len(Probes(h)) >= 1
      /\ ReturnsAsProbed(h)

(***************************************************************************)
(* What wait_for_file does: the same for every timeout > 0, whereas with   *)
(* timeout = 0 the call returns false without probing at all.  On a false  *)
(* return the sleeps add up to the first multiple of the interval that     *)
(* reaches the timeout.                                                    *)
(***************************************************************************)
WaitResultAsCoded ==
  \A h \in Handlers :
    (WaitReturned(h) /\ OnlyFoundOrNotFound(h)) =>
      /\ ReturnsAsProbed(h)
      /\ wait[h].timeout > 0 => Len(Probes(h)) >= 1
      /\ wait[h].timeout = 0 =>
           (Probes(h) = <<>> /\ wait[h].ret = "false")
      /\ (wait[h].ret = "false" /\ wait[h].timeout > 0) =>
           wait[h].elapsed_time - wait[h].interval < wait[h].timeout

\* A call with a positive timeout returned true on its second probe.
WaitResultWitness ==
  /\ WaitReturned(1)
  /\ wait[1].timeout > 0
  /\ wait[1].ret = "true"
  /\ Len(Probes(1)) = 2
  /\ Probes(1)[1].res = "404"
  /\ Probes(1)[2].res = "found"

(***************************************************************************)
(* C9: in wait_for_file another probe follows only a probe that answered   *)
(* 'not found'.  A probe that failed otherwise is the last one: the call   *)
(* ends at once by raising that error, without the sleep, and never        *)
(* returns true or false.                                                  *)
(***************************************************************************)
C9_OnlyNotFoundIsRetried ==
  \A h \in Handlers :
    LET probes == Probes(h)
    IN  \A i \in 1..Len(probes) :
          /\ i < Len(probes) => probes[i].res = "404"
          /\ probes[i].res \notin {"found", "404"} =>
               /\ i = Len(probes)
               /\ probes[i].elapsed = (i - 1) * wait[h].interval
               /\ wait[h].elapsed_time = probes[i].elapsed
               /\ WaitReturned(h)
               /\ wait[h].ret = "raise"
               /\ exc[h] = Some(Exc("ClientError", probes[i].res))

\* The second probe failed with 403 and the call raised.
C9_Witness ==
  /\ WaitReturned(1)
  /\ wait[1].ret = "raise"
  /\ Len(Probes(1)) = 2
  /\ Probes(1)[1].res = "404"
  /\ Probes(1)[2].res = "403"

(***************************************************************************)
(* C10: a notification never raises and never alters the Job.  Whatever    *)
(* the POST answers, the step that posts a StatusEvent leaves no exception *)
(* in flight and takes the handler to the same place: after 'start' to the *)
(* first poll, after 'end' to the next record, after 'error' to the        *)
(* cleanup; the files, the local variables and the global path are left    *)
(* as they were.                                                           *)
(***************************************************************************)
NotifyStep(h) ==
  /\ Len(net'[h]) = Len(net[h]) + 1
  /\ net'[h][Len(net'[h])].op = "notify"

C10_NotificationNeverAltersOutcome ==
  [][\A h \in Handlers :
       NotifyStep(h) =>
         LET c == net'[h][Len(net'[h])]
         IN  /\ c.res \in {"ok", "fail"}
             /\ exc'[h] = None
             /\ pc'[h] = CASE c.action = "start" -> "wait_call"
                           [] c.action = "end" -> "loop"
                           [] OTHER -> "finally"
             /\ fs' = fs
             /\ loc' = loc
             /\ instrPath' = instrPath
             /\ idx' = idx
             /\ hist' = hist]_vars

\* The POSTs of 'start' and of 'end' both failed; the Job was staged,
\* processed and uploaded all the same and the handler has returned.
C10_Witness ==
  \E h \in Handlers :
    /\ pc[h] = "returned"
    /\ \E i, j, k \in 1..Len(net[h]) :
         /\ i < j
         /\ j < k
         /\ net[h][i].action = "start"
         /\ net[h][i].res = "fail"
         /\ net[h][j].op = "upload"
         /\ net[h][j].res = "ok"
         /\ net[h][k].action = "end"
         /\ net[h][k].res = "fail"
    /\ \A i \in 1..Len(net[h]) : net[h][i].action # "error"

(***************************************************************************)
(* C11.  For every vocals duration v and instrumental duration i, the      *)
(* buffer that mix_tracks returns has duration exactly i: at every time    *)
(* unit it carries the instrumental over the vocals, the vocals being      *)
(* followed by i - v units of silence when v < i, cut to their first i     *)
(* units when v > i, and unchanged when v = i.                             *)
(***************************************************************************)
MixReturned(h) == pc[h] = "mix_ret" /\ mix[h].out # None

C11_MixHasInstrumentalDuration ==
  \A h \in Handlers :
    MixReturned(h) =>
      LET vocals == mix[h].vocals
          instrumental == mix[h].instrumental
          out == mix[h].out[1]
      IN  /\ Len(out) = Len(instrumental)
          /\ \A t \in 1..Len(out) :
               /\ out[t].over = instrumental[t]
               /\ out[t].base = IF t <= Len(vocals)
                                THEN vocals[t]
                                ELSE [src |-> "silence", t |-> 0]

\* A mix of vocals that are longer than a non-empty instrumental.
C11_Witness ==
  \E h \in Handlers :
    /\ MixReturned(h)
    /\ Len(mix[h].vocals) > Len(mix[h].instrumental)
    /\ Len(mix[h].instrumental) >= 1

(***************************************************************************)
(* C12.  When mix_tracks returns its failure signal, process_files turns   *)
(* it into a failure of the Job: the mastering engine is not invoked, no   *)
(* upload takes place, no 'end' event is emitted, and the next outside     *)
(* call is the 'error' event of the Job, which names the failed mix.       *)
(***************************************************************************)
MixFailedAt(calls, i) == calls[i].op = "mix" /\ calls[i].res = "fail"

C12_FailedMixFailsTheJob ==
  \A h \in Handlers :
    \A i \in 1..Len(net[h]) :
      MixFailedAt(net[h], i) =>
        /\ \A j \in (i + 1)..Len(net[h]) :
             /\ net[h][j].op \notin {"master", "upload"}
             /\ ~(net[h][j].op = "notify" /\ net[h][j].action = "end")
        /\ IF i = Len(net[h])
           THEN /\ pc[h] = "except"
                /\ exc[h] = Some(Exc("ValueError",
                                     "Failed to mix audio tracks."))
           ELSE /\ IsErrorEvent(net[h][i + 1], job[h].songID,
                                Some("Failed to mix audio tracks."))
                /\ OnlyRemovalsAfter(net[h], i + 1)
                /\ pc[h] \in {"finally", "returned"}

\* An invocation that returned after a failed mix and its 'error' event.
C12_Witness ==
  \E h \in Handlers :
    /\ pc[h] = "returned"
    /\ \E i \in 1..Len(net[h]) - 1 :
         /\ MixFailedAt(net[h], i)
         /\ net[h][i + 1].op = "notify"
         /\ net[h][i + 1].action = "error"

(***************************************************************************)
(* C13.  When the reference and the instrumental were staged and the poll  *)
(* for the vocals runs into its timeout, the Job posts an 'error' event    *)
(* whose message says that the vocals file is not available, nothing is    *)
(* uploaded, and the cleanup removes the downloaded reference and          *)
(* instrumental files: each of them gets its os.remove, and is gone from   *)
(* /tmp whenever that call returned.                                       *)
(***************************************************************************)
VocalsTimedOutAt(calls, i) == TimedOut(calls[i]) /\ calls[i].asset = "vocals"

RemovedAfter(calls, i, path) ==
  \E j \in (i + 1)..Len(calls) :
    /\ calls[j].op = "remove"
    /\ calls[j].local = path
    /\ calls[j].res = "ok" => path \notin fs

C13_VocalsTimeoutReportedAndCleaned ==
  \A h \in Handlers :
    \A i \in 1..Len(net[h]) :
      VocalsTimedOutAt(net[h], i) =>
        /\ DownloadedBefore(net[h], i, 1)
        /\ DownloadedBefore(net[h], i, 2)
        /\ \A j \in 1..Len(net[h]) : net[h][j].op # "upload"
        /\ i < Len(net[h]) =>
             IsErrorEvent(net[h][i + 1], job[h].songID,
                          Some("Vocals file not available: utau_inference/"
                                 \o FmtText(job[h].fileName)))
        /\ Finished(h) =>
             /\ i < Len(net[h])
             /\ RemovedAfter(net[h], i + 1, "/tmp/reference.wav")
             /\ RemovedAfter(net[h], i + 1, "/tmp/instrumental.wav")

\* A finished invocation whose vocals never appeared and whose cleanup took
\* both downloaded files away.
C13_Witness ==
  \E h \in Handlers :
    /\ Finished(h)
    /\ \E i \in 1..Len(net[h]) : VocalsTimedOutAt(net[h], i)
    /\ "/tmp/reference.wav" \notin fs
    /\ "/tmp/instrumental.wav" \notin fs

(***************************************************************************)
(* C14 as stated: every local path a Job uses is keyed by its songID, so   *)
(* two Jobs with different songIDs that run concurrently on the same /tmp  *)
(* never read, write or delete the same local file.                        *)
(***************************************************************************)
\* The local files that the calls made for the record in hand name: the
\* targets of downloads, the mastered file, the source of the upload and the
\* files removed.
LocalFilesOf(h) == {net[h][i].local : i \in 1..Len(net[h])} \ {""}

C14_LocalFilesKeyedBySongID ==
  \A h1 \in Handlers, h2 \in Handlers :
    ( /\ h1 # h2
      /\ idx[h1] >= 1
      /\ idx[h2] >= 1
      /\ job[h1].ok
      /\ job[h2].ok
      /\ job[h1].songID # job[h2].songID )
    => LocalFilesOf(h1) \cap LocalFilesOf(h2) = {}

(***************************************************************************)
(* C15 as stated: under every interleaving of two invocations that handle  *)
(* different trackIDs, each Job polls and downloads the instrumental that  *)
(* the catalog maps to its own trackID.                                    *)
(***************************************************************************)
C15_InstrumentalOfOwnTrack ==
  \A h \in Handlers :
    \A i \in 1..Len(net[h]) :
      ( /\ net[h][i].op \in {"head", "download"}
        /\ net[h][i].asset = "instrumental" )
      => net[h][i].key = get_dynamic_s3_paths(job[h].trackID).path

(***************************************************************************)
(* C16.  A failure to delete a staging file during cleanup is only logged: *)
(* the handler still returns instead of raising, every other path of the   *)
(* cleanup list that exists still gets its deletion attempt (a listed file *)
(* that is left in /tmp is one whose own os.remove failed), and no         *)
(* StatusEvent follows the failed deletion.                                *)
(***************************************************************************)
RemoveFailedAt(calls, i) == calls[i].op = "remove" /\ calls[i].res = "fail"

ListedFiles ==
  {CleanupPaths[i][1] : i \in {j \in 1..Len(CleanupPaths) :
                                 CleanupPaths[j] # None}}

C16_FailedDeletionOnlyLogged ==
  \A h \in Handlers :
    \A i \in 1..Len(net[h]) :
      RemoveFailedAt(net[h], i) =>
        /\ pc[h] = "returned"
        /\ exc[h] = None
        /\ OnlyRemovalsAfter(net[h], i)
        /\ Len(EventsIn(net[h], {"error"})) <= 1
        /\ \A p \in ListedFiles \cap fs :
             \E j \in 1..Len(net[h]) :
               RemoveFailedAt(net[h], j) /\ net[h][j].local = p

\* The deletion of the reference file failed and the instrumental file was
\* deleted after it.
C16_Witness ==
  \E h \in Handlers :
    /\ pc[h] = "returned"
    /\ \E i \in 1..Len(net[h]) - 1 :
         /\ RemoveFailedAt(net[h], i)
         /\ net[h][i].local = "/tmp/reference.wav"
         /\ net[h][i + 1].op = "remove"
         /\ net[h][i + 1].local = "/tmp/instrumental.wav"
         /\ net[h][i + 1].res = "ok"

(***************************************************************************)
(* C17 as stated: every 'error' event carries the songID of the Job whose  *)
(* step failed.  An 'error' event sent while a record is in hand carries   *)
(* the songID of that record when its body parsed; when its body did not   *)
(* parse, the event does not carry the songID of an earlier record of the  *)
(* envelope, all of which received their 'end'.                            *)
(***************************************************************************)
EarlierSongIDs(h) == {hist[h][k].songID : k \in 1..Len(hist[h])}

C17_ErrorCarriesOwnSongID ==
  \A h \in Handlers :
    \A i \in 1..Len(net[h]) :
      (net[h][i].op = "notify" /\ net[h][i].action = "error") =>
        IF idx[h] >= 1 /\ job[h].ok
        THEN net[h][i].songID = job[h].songID
        ELSE net[h][i].songID \notin EarlierSongIDs(h)

(***************************************************************************)
(* C18.  The records of an envelope are handled one after another in       *)
(* envelope order, and the first record that fails ends the invocation:    *)
(* a record is taken only after every record before it received its 'end'  *)
(* without an 'error'; once the 'error' event of a record is out, control  *)
(* is in the cleanup or past it and only file removals follow, so no later *)
(* record is taken, emits an event or causes a probe, download or upload;  *)
(* and an invocation that ends with records left over ended on a failure.  *)
(***************************************************************************)
IsEvent(c, action) == c.op = "notify" /\ c.action = action

EndedWithoutError(calls) ==
  /\ Len(calls) >= 1
  /\ IsEvent(calls[Len(calls)], "end")
  /\ \A i \in 1..Len(calls) : ~IsEvent(calls[i], "error")

C18_FirstFailureEndsInvocation ==
  \A h \in Handlers :
    /\ idx[h] <= event[h].n
    /\ Len(hist[h]) = (IF idx[h] = 0 THEN 0 ELSE idx[h] - 1)
    /\ \A k \in 1..Len(hist[h]) : EndedWithoutError(hist[h][k].calls)
    /\ \A i \in 1..Len(net[h]) :
         IsEvent(net[h][i], "error") =>
           /\ pc[h] \in {"finally", "returned", "raised"}
           /\ OnlyRemovalsAfter(net[h], i)
    /\ (Finished(h) /\ idx[h] < event[h].n) =>
         \E i \in 1..Len(net[h]) : IsEvent(net[h][i], "error")

\* An invocation that is over after the failure of the first of its two
\* records.
C18_Witness ==
  \E h \in Handlers :
    /\ Finished(h)
    /\ event[h].n = 2
    /\ idx[h] = 1
    /\ \E i \in 1..Len(net[h]) : IsEvent(net[h][i], "error")

(***************************************************************************)
(* C19.  For every timeout >= 0 and interval > 0, a call of wait_for_file  *)
(* makes at most ceil(timeout / interval) existence probes, which is 2     *)
(* with the defaults that lambda_handler uses; a Job therefore makes at    *)
(* most 2 probes per asset and 6 in all; and when every outside call       *)
(* returns, the call of wait_for_file returns and the invocation reaches   *)
(* its end.                                                                *)
(***************************************************************************)
Ceil(a, b) == (a + b - 1) \div b

ProbesOf(h, name) ==
  SelectSeq(net[h], LAMBDA c : c.op = "head" /\ c.asset = name)

InWaitForFile(h) == pc[h] \in {"wait_loop", "wait_ret"}

ProbesBounded ==
  \A h \in Handlers :
    /\ InWaitForFile(h) =>
         Len(ProbesOf(h, CurrentAsset(h)))
           <= Ceil(wait[h].timeout, wait[h].interval)
    /\ wait[h].caller = "lambda_handler" =>
         /\ Ceil(wait[h].timeout, wait[h].interval) = 2
         /\ \A a \in 1..Len(AssetOrder) : Len(ProbesOf(h, AssetOrder[a])) <= 2
         /\ Len(Probes(h)) <= 6

Over(h) ==
  \/ pc[h] \in {"idle", "returned", "raised"}
  \/ pc[h] = "wait_ret" /\ wait[h].caller = ""

C19_BoundedProbesAndTermination ==
  /\ []ProbesBounded
  /\ <>(\A h \in Handlers : Over(h))

\* A Job that needed both probes for each of its three assets and completed.
C19_Witness ==
  \E h \in Handlers :
    /\ pc[h] = "returned"
    /\ Len(Probes(h)) = 6
    /\ \E i \in 1..Len(net[h]) : IsEvent(net[h][i], "end")

====
